---- MODULE Spec2Model ----
(***************************************************************************)
(* Model of the English-to-French notebook (Eng_French.ipynb): corpus      *)
(* loading, the Keras Tokenizer and pad_sequences as the notebook calls    *)
(* them, the cells that build and fit the three models, logits_to_text and *)
(* the save cell.                                                          *)
(*                                                                         *)
(* Text is a sequence of one-character strings, so that splitting, lower-  *)
(* casing, filtering and joining are computed character by character.      *)
(* A numeric table (a numpy array or a list of lists) is a sequence of     *)
(* rows.  A call that raises is the record Raised; a call that returns v   *)
(* is Returned(v).                                                         *)
(***************************************************************************)
EXTENDS Integers, Sequences, FiniteSets, TLC

VARIABLES
    pc,                 \* the cell, or the step of a function run, to execute next
    x_in, length_in,    \* the arguments of a function run on its own
    result,             \* what that run has returned so far
    english_data, french_data,              \* contents of data/english, data/french
    english_sentences, french_sentences,
    preproc_english_sentences, preproc_french_sentences,
    english_tokenizer, french_tokenizer,
    max_english_sequence_length, max_french_sequence_length,
    english_vocab_size, french_vocab_size,
    tmp_x,
    models,             \* the models built and fitted so far, by variable name
    prediction,         \* the text printed by the cell just run, when it is a
                        \* prediction cell (empty after any other cell)
    saved               \* the files the save cell has written, by file name

call == <<x_in, length_in, result>>
corpus == <<english_data, french_data, english_sentences, french_sentences>>
preproc == <<preproc_english_sentences, preproc_french_sentences,
             english_tokenizer, french_tokenizer,
             max_english_sequence_length, max_french_sequence_length,
             english_vocab_size, french_vocab_size>>
nb == <<corpus, preproc, tmp_x, models, prediction, saved>>
vars == <<pc, call, nb>>

(***************************************************************************)
(* Bounds of the model.                                                    *)
(***************************************************************************)
\* tokens in the two files of a notebook run together
MaxCorpusTokens == 4
\* lines of one corpus file
MaxLines == 2
\* ids in one sequence handed to pad_sequences_with_length
MaxSeqLen == 3
\* sequences in one batch handed to pad_sequences_with_length
MaxBatch == 2
\* largest explicit target length
MaxPadLen == 3
\* tokens of the corpus a decoding run builds its vocabulary from
MaxDecodeTokens == 2
\* tokens of a corpus handed to tokenize on its own
MaxTokenizedTokens == 3
\* tokens of a sentence looked up in a fitted tokenizer
MaxSentenceTokens == 3
\* longest sequence length and largest vocabulary size a builder run on its
\* own is called with, next to the printed ones
MaxBuildLen == 2
MaxBuildVocab == 2
\* leading positions of a predicted table whose rows are free; the later rows
\* predict padding
MaxPredictedTokens == 2

\* the default of the parameter length
None == -1

\* the target sequence length and vocabulary size the notebook printed
PrintedMaxFrenchSequenceLength == 21
PrintedFrenchVocabSize == 345

\* the words the two files of a notebook run are written with
Lexemes == {"a", "b"}
\* the same with a capital letter and a punctuation mark, for the tokenizer runs
TokLexemes == Lexemes \cup {"A", "."}
\* ids of the batches handed to pad_sequences_with_length directly
PadIds == {1, 2}

(***************************************************************************)
(* Python values.                                                          *)
(***************************************************************************)
Raised == [ok |-> FALSE, val |-> <<>>]
Returned(v) == [ok |-> TRUE, val |-> v]

Max(a, b) == IF a >= b THEN a ELSE b
Min(a, b) == IF a <= b THEN a ELSE b

\* (a faulty variant of the default length: the length of the first sequence)
MaxLen_First(x) == IF x = <<>> THEN 0 ELSE Len(Head(x))
\* max([len(sentence) for sentence in x]) for a non-empty x
RECURSIVE MaxLen(_)
MaxLen(x) ==
    IF x = <<>> THEN 0 ELSE Max(Len(Head(x)), MaxLen(Tail(x)))

\* s[-n:] and s[:n] of a Python sequence, n >= 0; s[-0:] is the whole of s
LastN(s, n) ==
    IF n = 0 \/ n >= Len(s) THEN s ELSE SubSeq(s, Len(s) - n + 1, Len(s))
FirstN(s, n) == SubSeq(s, 1, Min(n, Len(s)))

Zeros(n) == [j \in 1..n |-> 0]

\* str.split(sep) for a one-character sep: the pieces between the separators,
\* empty pieces kept, always at least one piece
RECURSIVE SplitFrom(_, _, _)
SplitFrom(data, sep, piece) ==
    IF data = <<>> THEN <<piece>>
    ELSE IF Head(data) = sep
         THEN <<piece>> \o SplitFrom(Tail(data), sep, <<>>)
         ELSE SplitFrom(Tail(data), sep, Append(piece, Head(data)))
Split(data, sep) == SplitFrom(data, sep, <<>>)

\* sep.join(pieces)
RECURSIVE Join(_, _)
Join(pieces, sep) ==
    IF pieces = <<>> THEN <<>>
    ELSE IF Len(pieces) = 1 THEN Head(pieces)
    ELSE Head(pieces) \o sep \o Join(Tail(pieces), sep)

\* str.split(): the maximal runs of non-whitespace characters
Whitespace == {" ", "\n", "\t"}
RECURSIVE WordsFrom(_, _)
WordsFrom(text, piece) ==
    IF text = <<>> THEN (IF piece = <<>> THEN <<>> ELSE <<piece>>)
    ELSE IF Head(text) \in Whitespace
         THEN (IF piece = <<>> THEN <<>> ELSE <<piece>>) \o WordsFrom(Tail(text), <<>>)
         ELSE WordsFrom(Tail(text), Append(piece, Head(text)))
SplitWhitespace(text) == WordsFrom(text, <<>>)

(***************************************************************************)
(* load_data                                                               *)
(***************************************************************************)
load_data(data) == Split(data, "\n")

(***************************************************************************)
(* Tokenizer(): filters, lower=True, split=' ', no oov_token, no num_words *)
(* (the backquote, also filtered, cannot be written in a string here)      *)
(***************************************************************************)
Filters == {"!", "\"", "#", "$", "%", "&", "(", ")", "*", "+", ",", "-", ".",
            "/", ":", ";", "<", "=", ">", "?", "@", "[", "\\", "]", "^", "_",
            "{", "|", "}", "~", "\t", "\n"}

LowerChar(c) == IF c = "A" THEN "a" ELSE IF c = "B" THEN "b" ELSE c

\* text_to_word_sequence: lower, filter characters to the split character,
\* split on it, drop the empty pieces
text_to_word_sequence(text) ==
    LET lowered == [i \in 1..Len(text) |-> LowerChar(text[i])]
        filtered == [i \in 1..Len(text) |->
                        IF lowered[i] \in Filters THEN " " ELSE lowered[i]]
    IN SelectSeq(Split(filtered, " "), LAMBDA w : w # <<>>)

\* the words of all texts, in order
RECURSIVE AllWords(_)
AllWords(x) ==
    IF x = <<>> THEN <<>>
    ELSE text_to_word_sequence(Head(x)) \o AllWords(Tail(x))

\* word_counts: the keys in order of first appearance, and the count of a word
RECURSIVE FirstAppearance(_, _)
FirstAppearance(ws, seen) ==
    IF ws = <<>> THEN seen
    ELSE IF \E i \in 1..Len(seen) : seen[i] = Head(ws)
         THEN FirstAppearance(Tail(ws), seen)
         ELSE FirstAppearance(Tail(ws), Append(seen, Head(ws)))

Count(w, ws) == Cardinality({i \in 1..Len(ws) : ws[i] = w})

\* wcounts.sort(key=lambda x: x[1], reverse=True): a stable sort, descending
\* (a faulty variant of the sort: a word goes before the words of equal count)
RECURSIVE InsertByCount_TiesLast(_, _, _)
InsertByCount_TiesLast(w, sorted, ws) ==
    IF sorted = <<>> THEN <<w>>
    ELSE IF Count(Head(sorted), ws) > Count(w, ws)
         THEN <<Head(sorted)>> \o InsertByCount_TiesLast(w, Tail(sorted), ws)
         ELSE <<w>> \o sorted
RECURSIVE InsertByCount(_, _, _)
InsertByCount(w, sorted, ws) ==
    IF sorted = <<>> THEN <<w>>
    ELSE IF Count(Head(sorted), ws) >= Count(w, ws)
         THEN <<Head(sorted)>> \o InsertByCount(w, Tail(sorted), ws)
         ELSE <<w>> \o sorted
RECURSIVE SortByCount(_, _, _)
SortByCount(keys, sorted, ws) ==
    IF keys = <<>> THEN sorted
    ELSE SortByCount(Tail(keys), InsertByCount(Head(keys), sorted, ws), ws)

\* fit_on_texts: the tokenizer, as sorted_voc, its words in id order
fit_on_texts(x) ==
    LET ws == AllWords(x)
    IN SortByCount(FirstAppearance(ws, <<>>), <<>>, ws)

\* (a faulty variant of word_index: ids from 0)
word_index_FromZero(tk) == {<<tk[k], k - 1>> : k \in 1..Len(tk)}

\* tokenizer.word_index, dict(zip(sorted_voc, range(1, len(sorted_voc) + 1))),
\* as its set of <<word, id>> entries
word_index(tk) == {<<tk[k], k>> : k \in 1..Len(tk)}
InWordIndex(tk, w) == \E e \in word_index(tk) : e[1] = w
IdOf(tk, w) == (CHOOSE e \in word_index(tk) : e[1] = w)[2]

\* (a faulty variant of texts_to_sequences: a word not found gets the id 0)
text_to_sequence_OovZero(tk, text) ==
    LET ws == text_to_word_sequence(text)
    IN [i \in 1..Len(ws) |-> IF InWordIndex(tk, ws[i]) THEN IdOf(tk, ws[i]) ELSE 0]
\* texts_to_sequences: the ids of the words found in word_index, the others
\* skipped
text_to_sequence(tk, text) ==
    LET ws == text_to_word_sequence(text)
        known == SelectSeq(ws, LAMBDA w : InWordIndex(tk, w))
    IN [i \in 1..Len(known) |-> IdOf(tk, known[i])]
\* (a faulty variant of texts_to_sequences: a text without known words gives no sequence)
texts_to_sequences_SkipEmpty(tk, x) ==
    SelectSeq([i \in 1..Len(x) |-> text_to_sequence(tk, x[i])], LAMBDA q : q # <<>>)

texts_to_sequences(tk, x) == [i \in 1..Len(x) |-> text_to_sequence(tk, x[i])]

tokenize(x) ==
    LET tokenizer == fit_on_texts(x)
    IN [seqs |-> texts_to_sequences(tokenizer, x), tk |-> tokenizer]

(***************************************************************************)
(* pad_sequences(x, maxlen=length, padding='post'), truncating='pre' by    *)
(* default, value 0                                                        *)
(***************************************************************************)
\* (faulty variants of Truncate: one element too few is kept; truncating='post')
Truncate_OneShort(s, maxlen) == LastN(s, Max(maxlen - 1, 0))
Truncate_Post(s, maxlen) == FirstN(s, maxlen)

\* trunc = s[-maxlen:]
Truncate(s, maxlen) == LastN(s, maxlen)

\* (a faulty variant of PlaceRow: padding='pre')
PlaceRow_Pre(trunc, maxlen) == Zeros(maxlen - Len(trunc)) \o trunc

\* x[idx, :len(trunc)] = trunc on a row of maxlen zeros
PlaceRow(trunc, maxlen) == trunc \o Zeros(maxlen - Len(trunc))

\* whether the row assignment raises: a longer trunc does not fit the row,
\* except that one element broadcasts into an empty row
RowRaises(s, maxlen) ==
    /\ Len(s) > 0
    /\ Len(Truncate(s, maxlen)) > maxlen
    /\ Len(Truncate(s, maxlen)) # 1

PadRow(s, maxlen) ==
    IF Len(s) = 0 THEN Zeros(maxlen)
    ELSE IF Len(Truncate(s, maxlen)) > maxlen THEN Zeros(maxlen)
    ELSE PlaceRow(Truncate(s, maxlen), maxlen)

pad_sequences(x, maxlen) ==
    IF \E i \in 1..Len(x) : RowRaises(x[i], maxlen) THEN Raised
    ELSE Returned([i \in 1..Len(x) |-> PadRow(x[i], maxlen)])

pad_sequences_with_length(x, length) ==
    IF length = None
    THEN IF x = <<>> THEN Raised ELSE pad_sequences(x, MaxLen(x))
    ELSE pad_sequences(x, length)

(***************************************************************************)
(* logits_to_text                                                          *)
(***************************************************************************)
PAD == <<"<", "P", "A", "D", ">">>

\* (a faulty variant of ArgMax: the column counted from 1)
ArgMax_FromOne(row) ==
    CHOOSE j \in 1..Len(row) :
        /\ \A k \in 1..Len(row) : row[k] <= row[j]
        /\ \A k \in 1..(j - 1) : row[k] < row[j]

\* np.argmax of one row: the first column holding the maximum, counted from 0
ArgMax(row) ==
    (CHOOSE j \in 1..Len(row) :
        /\ \A k \in 1..Len(row) : row[k] <= row[j]
        /\ \A k \in 1..(j - 1) : row[k] < row[j]) - 1

\* (a faulty variant of index_to_words: no entry for 0)
index_to_words_NoPad(tk) == {<<e[2], e[1]>> : e \in word_index(tk)}

\* index_to_words: the inverse of word_index, then index_to_words[0] = '<PAD>'
index_to_words(tk) ==
    {<<e[2], e[1]>> : e \in {w \in word_index(tk) : w[2] # 0}} \cup {<<0, PAD>>}
HasIndex(tk, id) == \E e \in index_to_words(tk) : e[1] = id
WordOf(tk, id) == (CHOOSE e \in index_to_words(tk) : e[1] = id)[2]

logits_to_text(logits, tk) ==
    LET predictions == [p \in 1..Len(logits) |-> ArgMax(logits[p])]
    IN IF \E p \in 1..Len(logits) : ~HasIndex(tk, predictions[p])
       THEN Raised
       ELSE Returned(Join([p \in 1..Len(logits) |-> WordOf(tk, predictions[p])],
                          <<" ">>))

(***************************************************************************)
(* Inputs                                                                  *)
(***************************************************************************)
SeqsUpTo(S, n) == UNION {[1..k -> S] : k \in 0..n}

\* A corpus file is written as lexemes and line breaks; two lexemes that
\* follow each other are separated by one space.
NL == "\n"
RECURSIVE Render(_)
Render(items) ==
    IF items = <<>> THEN <<>>
    ELSE IF Len(items) >= 2 /\ items[1] # NL /\ items[2] # NL
         THEN <<items[1], " ">> \o Render(Tail(items))
         ELSE <<items[1]>> \o Render(Tail(items))

NumTokens(items) == Cardinality({i \in 1..Len(items) : items[i] # NL})
NumBreaks(items) == Cardinality({i \in 1..Len(items) : items[i] = NL})

\* the files of at most MaxLines lines holding exactly / at most t lexemes
FileItems(lex, t) ==
    {items \in SeqsUpTo(lex \cup {NL}, t + MaxLines - 1) :
        NumTokens(items) = t /\ NumBreaks(items) <= MaxLines - 1}
Files(lex, t) == {Render(items) : items \in FileItems(lex, t)}
FilesUpTo(lex, t) == UNION {Files(lex, k) : k \in 0..t}

\* the two files of a notebook run
FilePairs ==
    UNION {Files(Lexemes, k) \X FilesUpTo(Lexemes, MaxCorpusTokens - k) :
              k \in 0..MaxCorpusTokens}

\* the batches of id sequences handed to pad_sequences_with_length
Batches == SeqsUpTo(SeqsUpTo(PadIds, MaxSeqLen), MaxBatch)

\* the tables handed to logits_to_text: one row per position, one column per id
LogitValues == {0, 1}
LogitTables(rows, cols) == [1..rows -> [1..cols -> LogitValues]]

\* the tables a fitted model predicts, up to the arg-max of each row: a leading
\* row peaks at one id or is flat, a later row peaks at the padding id
PeakedRows(cols) ==
    {[c \in 1..cols |-> IF c = k THEN 1 ELSE 0] : k \in 1..cols}
        \cup {[c \in 1..cols |-> 1]}
PredictedTables(rows, cols) ==
    {[p \in 1..rows |-> IF p <= MaxPredictedTokens THEN head[p]
                        ELSE [c \in 1..cols |-> IF c = 1 THEN 1 ELSE 0]] :
        head \in [1..Min(rows, MaxPredictedTokens) -> PeakedRows(cols)]}

\* the one-hot distribution of each id of a row
OneHot(row, cols) == [p \in 1..Len(row) |-> [c \in 1..cols |-> IF c - 1 = row[p] THEN 1 ELSE 0]]

(***************************************************************************)
(* The notebook, cell by cell.  A cell that raises stops the run.          *)
(***************************************************************************)
NoTable == <<>>
NoModels == [name \in {} |-> 0]
NoFiles == [name \in {} |-> 0]

NotebookIdle ==
    /\ english_data = <<>> /\ french_data = <<>>
    /\ english_sentences = <<>> /\ french_sentences = <<>>
    /\ preproc_english_sentences = NoTable /\ preproc_french_sentences = NoTable
    /\ english_tokenizer = <<>> /\ french_tokenizer = <<>>
    /\ max_english_sequence_length = 0 /\ max_french_sequence_length = 0
    /\ english_vocab_size = 0 /\ french_vocab_size = 0
    /\ tmp_x = NoTable /\ models = NoModels
    /\ prediction = <<>> /\ saved = NoFiles

CallIdle == x_in = <<>> /\ length_in = None /\ result = <<>>

Init ==
    /\ pc = "load_data"
    /\ CallIdle
    /\ \E files \in FilePairs :
          /\ english_data = files[1]
          /\ french_data = files[2]
    /\ english_sentences = <<>> /\ french_sentences = <<>>
    /\ preproc_english_sentences = NoTable /\ preproc_french_sentences = NoTable
    /\ english_tokenizer = <<>> /\ french_tokenizer = <<>>
    /\ max_english_sequence_length = 0 /\ max_french_sequence_length = 0
    /\ english_vocab_size = 0 /\ french_vocab_size = 0
    /\ tmp_x = NoTable /\ models = NoModels
    /\ prediction = <<>> /\ saved = NoFiles

\* english_sentences = load_data('data/english'), french likewise
LoadData ==
    /\ pc = "load_data"
    /\ english_sentences' = load_data(english_data)
    /\ french_sentences' = load_data(french_data)
    /\ pc' = "preprocess"
    /\ UNCHANGED <<call, english_data, french_data, preproc, tmp_x, models,
                   prediction, saved>>

\* preprocess_y.reshape(*preprocess_y.shape, 1)
ReshapeLabels(t) == [i \in 1..Len(t) |-> [j \in 1..Len(t[i]) |-> <<t[i][j]>>]]

\* shape[1] of a table of at least one row
Width(t) == Len(t[1])

preprocess(x, y) ==
    LET tx == tokenize(x)
        ty == tokenize(y)
        px == pad_sequences_with_length(tx.seqs, None)
        py == pad_sequences_with_length(ty.seqs, None)
    IN IF px.ok /\ py.ok
       THEN Returned([preprocess_x |-> px.val,
                      preprocess_y |-> ReshapeLabels(py.val),
                      x_tk |-> tx.tk, y_tk |-> ty.tk])
       ELSE Raised

\* (a faulty variant: the number of words alone)
vocab_size_NoPad(tk) == Cardinality(word_index(tk))
\* len(tokenizer.word_index) + 1
vocab_size(tk) == Cardinality(word_index(tk)) + 1

\* the cell that calls preprocess and takes the lengths and vocabulary sizes
Preprocess ==
    /\ pc = "preprocess"
    /\ LET r == preprocess(english_sentences, french_sentences)
       IN IF r.ok
          THEN /\ preproc_english_sentences' = r.val.preprocess_x
               /\ preproc_french_sentences' = r.val.preprocess_y
               /\ english_tokenizer' = r.val.x_tk
               /\ french_tokenizer' = r.val.y_tk
               /\ max_english_sequence_length' = Width(r.val.preprocess_x)
               /\ max_french_sequence_length' = Width(r.val.preprocess_y)
               /\ english_vocab_size' = vocab_size(r.val.x_tk)
               /\ french_vocab_size' = vocab_size(r.val.y_tk)
               /\ pc' = "simple_model"
          ELSE /\ pc' = "error"
               /\ UNCHANGED preproc
    /\ UNCHANGED <<call, corpus, tmp_x, models, prediction, saved>>

\* numpy's reshape((-1, w)) of a table: the same entries, row after row, in
\* rows of w; it raises when w is 0 or does not divide the number of entries
RECURSIVE Flatten(_)
Flatten(t) == IF t = <<>> THEN <<>> ELSE Head(t) \o Flatten(Tail(t))
Reshape2(t, w) ==
    LET flat == Flatten(t)
    IN IF w = 0 \/ Len(flat) % w # 0 THEN Raised
       ELSE Returned([i \in 1..(Len(flat) \div w) |->
                        [j \in 1..w |-> flat[(i - 1) * w + j]]])
\* reshape((-1, w, 1))
Reshape3(t, w) ==
    LET r == Reshape2(t, w)
    IN IF r.ok THEN Returned(ReshapeLabels(r.val)) ELSE Raised

\* tmp_x.shape of a table once reshaped: rows, then the shape of one row
Shape3(t, w) == <<Len(t), w, 1>>
Shape2(t, w) == <<Len(t), w>>

\* The three builders: the shape of one input sample and of one output
\* sample after each layer.
simple_model(input_shape, output_sequence_length, e_vocab_size, f_vocab_size) ==
    [input |-> Tail(input_shape),
     layers |-> << <<input_shape[2], 256>>,
                   <<input_shape[2], 1024>>,
                   <<input_shape[2], 1024>>,
                   <<input_shape[2], f_vocab_size>> >>]

bd_model(input_shape, output_sequence_length, e_vocab_size, f_vocab_size) ==
    [input |-> Tail(input_shape),
     layers |-> << <<input_shape[2], 2 * 128>>,
                   <<input_shape[2], 1024>>,
                   <<input_shape[2], 1024>>,
                   <<input_shape[2], f_vocab_size>> >>]

bidirectional_embed_model(input_shape, output_sequence_length, e_vocab_size, f_vocab_size) ==
    [input |-> Tail(input_shape),
     input_dim |-> e_vocab_size,
     layers |-> << <<input_shape[2], 256>>,
                   <<input_shape[2], 2 * 256>>,
                   <<input_shape[2], 1024>>,
                   <<input_shape[2], 1024>>,
                   <<input_shape[2], f_vocab_size>> >>]

\* (a faulty variant: the shape before the last layer)
OutputShape_BeforeProjection(model) == model.layers[Len(model.layers) - 1]
\* the shape of one output sample of a model
OutputShape(model) == model.layers[Len(model.layers)]

\* the shape of model.predict(batch): it raises when the samples of the batch
\* do not have the shape of the model's input
predict_shape(model, batch_shape) ==
    IF Tail(batch_shape) = model.input
    THEN Returned(<<batch_shape[1]>> \o OutputShape(model))
    ELSE Raised

\* model.fit(x, y, ...) raises when x and y hold different numbers of samples
FitRaises(x, y) == Len(x) # Len(y)

WithModel(name, model) ==
    [n \in DOMAIN models \cup {name} |-> IF n = name THEN model ELSE models[n]]

\* tmp_x = pad_sequences_with_length(preproc_english_sentences, max_french_sequence_length)
PadToTarget ==
    pad_sequences_with_length(preproc_english_sentences, max_french_sequence_length)

\* The cell of model 1: pad, reshape to (-1, preproc_french_sentences.shape[-2], 1),
\* build, fit.
SimpleModelCell ==
    /\ pc = "simple_model"
    /\ LET padded == PadToTarget
           w == Width(preproc_french_sentences)
           reshaped == IF padded.ok THEN Reshape3(padded.val, w) ELSE Raised
       IN IF reshaped.ok /\ ~FitRaises(reshaped.val, preproc_french_sentences)
          THEN /\ tmp_x' = reshaped.val
               /\ models' = WithModel("simple_rnn_model",
                                simple_model(Shape3(reshaped.val, w),
                                             max_french_sequence_length,
                                             english_vocab_size, french_vocab_size))
               /\ pc' = "simple_predict"
          ELSE /\ tmp_x' = IF reshaped.ok THEN reshaped.val
                           ELSE IF padded.ok THEN padded.val ELSE tmp_x
               /\ models' = models
               /\ pc' = "error"
    /\ prediction' = <<>>
    /\ UNCHANGED <<call, corpus, preproc, saved>>

\* The cell of model 2: pad, reshape to (-1, max_french_sequence_length, 1),
\* build, fit.
BdModelCell ==
    /\ pc = "bd_model"
    /\ LET padded == PadToTarget
           w == max_french_sequence_length
           reshaped == IF padded.ok THEN Reshape3(padded.val, w) ELSE Raised
       IN IF reshaped.ok /\ ~FitRaises(reshaped.val, preproc_french_sentences)
          THEN /\ tmp_x' = reshaped.val
               /\ models' = WithModel("bd_rnn_model",
                                bd_model(Shape3(reshaped.val, w),
                                         max_french_sequence_length,
                                         english_vocab_size, french_vocab_size))
               /\ pc' = "bd_predict"
          ELSE /\ tmp_x' = IF reshaped.ok THEN reshaped.val
                           ELSE IF padded.ok THEN padded.val ELSE tmp_x
               /\ models' = models
               /\ pc' = "error"
    /\ prediction' = <<>>
    /\ UNCHANGED <<call, corpus, preproc, saved>>

\* The cell of model 3: pad, reshape to (-1, preproc_french_sentences.shape[-2]),
\* build, fit.
EmbedModelCell ==
    /\ pc = "embed_model"
    /\ LET padded == PadToTarget
           w == Width(preproc_french_sentences)
           reshaped == IF padded.ok THEN Reshape2(padded.val, w) ELSE Raised
       IN IF reshaped.ok /\ ~FitRaises(reshaped.val, preproc_french_sentences)
          THEN /\ tmp_x' = reshaped.val
               /\ models' = WithModel("embed_rnn_model",
                                bidirectional_embed_model(Shape2(reshaped.val, w),
                                         max_french_sequence_length,
                                         english_vocab_size, french_vocab_size))
               /\ pc' = "embed_predict"
          ELSE /\ tmp_x' = IF reshaped.ok THEN reshaped.val
                           ELSE IF padded.ok THEN padded.val ELSE tmp_x
               /\ models' = models
               /\ pc' = "error"
    /\ prediction' = <<>>
    /\ UNCHANGED <<call, corpus, preproc, saved>>

\* (a faulty variant of the prediction cell: logits_to_text's '<PAD>' entry is
\* written into the tokenizer)
PredictCell_ExtendsVocabulary(at, name, next) ==
    /\ pc = at
    /\ \E logits \in PredictedTables(OutputShape(models[name])[1],
                                      OutputShape(models[name])[2]) :
          LET text == logits_to_text(logits, french_tokenizer)
          IN IF text.ok
             THEN prediction' = text.val /\ pc' = next
             ELSE prediction' = prediction /\ pc' = "error"
    /\ french_tokenizer' = Append(french_tokenizer, PAD)
    /\ UNCHANGED <<call, corpus, preproc_english_sentences, preproc_french_sentences,
                   english_tokenizer, max_english_sequence_length,
                   max_french_sequence_length, english_vocab_size, french_vocab_size,
                   tmp_x, models, saved>>

\* print(logits_to_text(model.predict(tmp_x[:1])[0], french_tokenizer)): the
\* model returns some table of the shape of its output
PredictCell(at, name, next) ==
    /\ pc = at
    /\ \E logits \in PredictedTables(OutputShape(models[name])[1],
                                      OutputShape(models[name])[2]) :
          LET text == logits_to_text(logits, french_tokenizer)
          IN IF text.ok
             THEN prediction' = text.val /\ pc' = next
             ELSE prediction' = prediction /\ pc' = "error"
    /\ UNCHANGED <<call, corpus, preproc, tmp_x, models, saved>>

SimplePredict == PredictCell("simple_predict", "simple_rnn_model", "bd_model")
BdPredict == PredictCell("bd_predict", "bd_rnn_model", "embed_model")
EmbedPredict == PredictCell("embed_predict", "embed_rnn_model", "save")

\* (a faulty variant of the save cell: the source sequence length is stored)
Save_EnglishLength ==
    /\ pc = "save"
    /\ saved' = [f \in {"english_to_french_model.keras", "english_tokenizer.json",
                         "french_tokenizer.json", "sequence_length.json"} |->
                    CASE f = "english_to_french_model.keras" -> models["embed_rnn_model"]
                      [] f = "english_tokenizer.json" -> word_index(english_tokenizer)
                      [] f = "french_tokenizer.json" -> word_index(french_tokenizer)
                      [] f = "sequence_length.json" -> max_english_sequence_length]
    /\ pc' = "done"
    /\ prediction' = <<>>
    /\ UNCHANGED <<call, corpus, preproc, tmp_x, models>>

\* The save cell: the model, the two tokenizers, the target sequence length.
Save ==
    /\ pc = "save"
    /\ saved' = [f \in {"english_to_french_model.keras", "english_tokenizer.json",
                         "french_tokenizer.json", "sequence_length.json"} |->
                    CASE f = "english_to_french_model.keras" -> models["embed_rnn_model"]
                      [] f = "english_tokenizer.json" -> word_index(english_tokenizer)
                      [] f = "french_tokenizer.json" -> word_index(french_tokenizer)
                      [] f = "sequence_length.json" -> max_french_sequence_length]
    /\ pc' = "done"
    /\ prediction' = <<>>
    /\ UNCHANGED <<call, corpus, preproc, tmp_x, models>>

Next ==
    \/ LoadData
    \/ Preprocess
    \/ SimpleModelCell
    \/ SimplePredict
    \/ BdModelCell
    \/ BdPredict
    \/ EmbedModelCell
    \/ EmbedPredict
    \/ Save

Spec == Init /\ [][Next]_vars

(***************************************************************************)
(* pad_sequences_with_length run on its own: on a batch, then on its own   *)
(* result.                                                                 *)
(***************************************************************************)
InitPad ==
    /\ pc = "pad"
    /\ x_in \in Batches
    /\ length_in \in (0..MaxPadLen) \cup {None}
    /\ result = <<>>
    /\ NotebookIdle

PadRun ==
    /\ pc = "pad"
    /\ result' = <<pad_sequences_with_length(x_in, length_in)>>
    /\ pc' = "pad_again"
    /\ UNCHANGED <<x_in, length_in, nb>>

\* an exception of the inner call propagates
PadAgainRun ==
    /\ pc = "pad_again"
    /\ result' = Append(result,
                        IF result[1].ok
                        THEN pad_sequences_with_length(result[1].val, length_in)
                        ELSE Raised)
    /\ pc' = "padded"
    /\ UNCHANGED <<x_in, length_in, nb>>

NextPad == PadRun \/ PadAgainRun

SpecPad == InitPad /\ [][NextPad]_vars

(***************************************************************************)
(* tokenize run on its own on a corpus; then each id sequence padded to    *)
(* max_length and the one-hot distributions of the padded row decoded.     *)
(***************************************************************************)
Corpora == {load_data(f) : f \in FilesUpTo(TokLexemes, MaxTokenizedTokens)}

InitTok ==
    /\ pc = "tokenize"
    /\ x_in \in Corpora
    /\ length_in \in 0..MaxPadLen
    /\ result = <<>>
    /\ NotebookIdle

TokenizeRun ==
    /\ pc = "tokenize"
    /\ LET r == tokenize(x_in)
       IN result' = [tokenized |-> r, vocab_size |-> vocab_size(r.tk)]
    /\ pc' = "pad_tokens"
    /\ UNCHANGED <<x_in, length_in, nb>>

PadTokensRun ==
    /\ pc = "pad_tokens"
    /\ result' = [tokenized |-> result.tokenized,
                  vocab_size |-> result.vocab_size,
                  padded |-> [i \in 1..Len(x_in) |->
                      pad_sequences_with_length(<<result.tokenized.seqs[i]>>, length_in)]]
    /\ pc' = "decode"
    /\ UNCHANGED <<x_in, length_in, nb>>

DecodeRun ==
    /\ pc = "decode"
    /\ result' = [tokenized |-> result.tokenized,
                  vocab_size |-> result.vocab_size,
                  padded |-> result.padded,
                  decoded |-> [i \in 1..Len(x_in) |->
                      IF result.padded[i].ok
                      THEN logits_to_text(
                               OneHot(result.padded[i].val[1], result.vocab_size),
                               result.tokenized.tk)
                      ELSE Raised]]
    /\ pc' = "decoded"
    /\ UNCHANGED <<x_in, length_in, nb>>

NextTok == TokenizeRun \/ PadTokensRun \/ DecodeRun

SpecTok == InitTok /\ [][NextTok]_vars

(***************************************************************************)
(* logits_to_text run on its own: a tokenizer fitted on a one-line corpus, *)
(* then any table with one column per id of its vocabulary and of 0.       *)
(***************************************************************************)
DecodeCorpora ==
    {<<Render(items)>> : items \in SeqsUpTo(Lexemes, MaxDecodeTokens)}

InitDecode ==
    /\ pc = "fit"
    /\ x_in \in DecodeCorpora
    /\ length_in = None
    /\ result = <<>>
    /\ NotebookIdle

FitRun ==
    /\ pc = "fit"
    /\ result' = [tk |-> tokenize(x_in).tk]
    /\ pc' = "logits_to_text"
    /\ UNCHANGED <<x_in, length_in, nb>>

LogitsToTextRun ==
    /\ pc = "logits_to_text"
    /\ \E seq_len \in 0..MaxSeqLen :
       \E logits \in LogitTables(seq_len, vocab_size(result.tk)) :
          result' = [tk |-> result.tk,
                     logits |-> logits,
                     text |-> logits_to_text(logits, result.tk)]
    /\ pc' = "decoded"
    /\ UNCHANGED <<x_in, length_in, nb>>

NextDecode == FitRun \/ LogitsToTextRun

SpecDecode == InitDecode /\ [][NextDecode]_vars

(***************************************************************************)
(* The tokenizer on its own: tokenize run on a corpus, run again on the    *)
(* same corpus, then texts_to_sequences of the tokenizer of the first run  *)
(* on one more sentence.                                                   *)
(***************************************************************************)
Sentences == {Render(items) : items \in SeqsUpTo(Lexemes \cup {"A"}, MaxSentenceTokens)}

InitVocab ==
    /\ pc = "vocab_fit"
    /\ x_in \in Corpora
    /\ length_in = None
    /\ result = <<>>
    /\ NotebookIdle

VocabFitRun ==
    /\ pc = "vocab_fit"
    /\ result' = [tk |-> tokenize(x_in).tk]
    /\ pc' = "vocab_refit"
    /\ UNCHANGED <<x_in, length_in, nb>>

VocabRefitRun ==
    /\ pc = "vocab_refit"
    /\ result' = [tk |-> result.tk, again |-> tokenize(x_in).tk]
    /\ pc' = "vocab_lookup"
    /\ UNCHANGED <<x_in, length_in, nb>>

\* tokenizer.texts_to_sequences([sentence])[0]; it reads word_index and leaves
\* the tokenizer as it was
VocabLookupRun ==
    /\ pc = "vocab_lookup"
    /\ \E sentence \in Sentences :
          result' = [tk |-> result.tk,
                     again |-> result.again,
                     sentence |-> sentence,
                     ids |-> Returned(texts_to_sequences(result.tk, <<sentence>>)[1]),
                     tk_after |-> result.tk]
    /\ pc' = "vocab_done"
    /\ UNCHANGED <<x_in, length_in, nb>>

NextVocab == VocabFitRun \/ VocabRefitRun \/ VocabLookupRun

SpecVocab == InitVocab /\ [][NextVocab]_vars

(***************************************************************************)
(* The three builders on their own: a model is built for the shape of a    *)
(* training table, then predicts on a batch of samples of that shape.      *)
(***************************************************************************)
Builders == {"simple_model", "bd_model", "bidirectional_embed_model"}
BuildLens == (1..MaxBuildLen) \cup {PrintedMaxFrenchSequenceLength}
BuildVocabs == (1..MaxBuildVocab) \cup {PrintedFrenchVocabSize}

\* tmp_x.shape: (rows, length, 1) for the first two builders, (rows, length)
\* for the third
TableShape(builder, rows, len) ==
    IF builder = "bidirectional_embed_model" THEN <<rows, len>> ELSE <<rows, len, 1>>

Build(builder, input_shape, output_sequence_length, e_vocab_size, f_vocab_size) ==
    CASE builder = "simple_model" ->
            simple_model(input_shape, output_sequence_length, e_vocab_size, f_vocab_size)
      [] builder = "bd_model" ->
            bd_model(input_shape, output_sequence_length, e_vocab_size, f_vocab_size)
      [] builder = "bidirectional_embed_model" ->
            bidirectional_embed_model(input_shape, output_sequence_length,
                                      e_vocab_size, f_vocab_size)

InitBuild ==
    /\ pc = "build"
    /\ CallIdle
    /\ NotebookIdle

BuildRun ==
    /\ pc = "build"
    /\ \E builder \in Builders, rows \in 1..MaxBatch, len \in BuildLens,
          output_sequence_length \in BuildLens,
          e_vocab_size \in 1..MaxBuildVocab, f_vocab_size \in BuildVocabs :
          result' = [builder |-> builder,
                     input_shape |-> TableShape(builder, rows, len),
                     output_sequence_length |-> output_sequence_length,
                     french_vocab_size |-> f_vocab_size,
                     model |-> Build(builder, TableShape(builder, rows, len),
                                     output_sequence_length,
                                     e_vocab_size, f_vocab_size)]
    /\ pc' = "predict"
    /\ UNCHANGED <<x_in, length_in, nb>>

BuiltPredictRun ==
    /\ pc = "predict"
    /\ \E batch \in 1..MaxBatch :
          LET batch_shape == <<batch>> \o Tail(result.input_shape)
          IN result' = [builder |-> result.builder,
                        input_shape |-> result.input_shape,
                        output_sequence_length |-> result.output_sequence_length,
                        french_vocab_size |-> result.french_vocab_size,
                        model |-> result.model,
                        batch_shape |-> batch_shape,
                        output_shape |-> predict_shape(result.model, batch_shape)]
    /\ pc' = "predicted"
    /\ UNCHANGED <<x_in, length_in, nb>>

NextBuild == BuildRun \/ BuiltPredictRun

SpecBuild == InitBuild /\ [][NextBuild]_vars

(***************************************************************************)
(* Properties of pad_sequences_with_length, under SpecPad.                 *)
(***************************************************************************)
PadReturned == pc \in {"pad_again", "padded"}

\* C1: for a batch of one sequence x and a target length L with len(x) > L,
\* the call returns, and its row is the first L elements of x.
C1_TruncatedRowIsFirstL ==
    (PadReturned /\ length_in # None /\ Len(x_in) = 1 /\ Len(x_in[1]) > length_in)
        => /\ result[1].ok
           /\ result[1].val[1] = FirstN(x_in[1], length_in)

\* C2: a sequence shorter than the target length L gives a row of length L
\* that starts with the sequence, in order, and is 0 from there on.
C2_ShortRowIsZeroPaddedAtEnd ==
    (PadReturned /\ length_in # None)
        => \A i \in 1..Len(x_in) :
              Len(x_in[i]) < length_in
                  => /\ result[1].ok
                     /\ Len(result[1].val[i]) = length_in
                     /\ \A j \in 1..Len(x_in[i]) : result[1].val[i][j] = x_in[i][j]
                     /\ \A j \in (Len(x_in[i]) + 1)..length_in : result[1].val[i][j] = 0

C2_Witness ==
    /\ PadReturned /\ length_in # None
    /\ \E i \in 1..Len(x_in) : 0 < Len(x_in[i]) /\ Len(x_in[i]) < length_in

\* C6: padding the result of a padding again, to the same length, gives the
\* same result (an exception of the first call being the result of both).
C6_PadIsIdempotent ==
    pc = "padded" => result[2] = result[1]

C6_Witness ==
    /\ pc = "padded" /\ length_in # None /\ result[1].ok
    /\ \E i \in 1..Len(x_in) : Len(x_in[i]) > length_in
    /\ \E i \in 1..Len(x_in) : 0 < Len(x_in[i]) /\ Len(x_in[i]) < length_in

\* C14: called without a length on a batch, pad_sequences_with_length returns
\* rows that all have the length of the longest sequence of the batch, and
\* every row starts with the whole of its sequence: nothing is cut off.
C14_DefaultLengthIsLongestOfBatch ==
    (PadReturned /\ length_in = None /\ x_in # <<>>)
        => /\ result[1].ok
           /\ Len(result[1].val) = Len(x_in)
           /\ \E w \in 0..MaxSeqLen :
                 /\ \E i \in 1..Len(x_in) : Len(x_in[i]) = w
                 /\ \A i \in 1..Len(x_in) :
                       /\ Len(x_in[i]) <= w
                       /\ Len(result[1].val[i]) = w
                       /\ SubSeq(result[1].val[i], 1, Len(x_in[i])) = x_in[i]

C14_Witness ==
    /\ PadReturned /\ length_in = None
    /\ Len(x_in) = 2
    /\ 0 < Len(x_in[1]) /\ Len(x_in[1]) < Len(x_in[2])
    /\ result[1].ok

(***************************************************************************)
(* Properties of tokenize and of the round trip, under SpecTok.            *)
(***************************************************************************)
Tokenized == pc \in {"pad_tokens", "decode", "decoded"}

\* C3: the id sequence of every sentence of the corpus has one id per
\* whitespace-delimited token of the sentence, words and punctuation marks
\* alike.
C3_OneIdPerWhitespaceToken ==
    Tokenized
        => \A i \in 1..Len(x_in) :
              Len(result.tokenized.seqs[i]) = Len(SplitWhitespace(x_in[i]))

\* the words of the corpus as the tokenizer reads them
CorpusWords == {AllWords(x_in)[k] : k \in 1..Len(AllWords(x_in))}

InVocabulary(i) ==
    LET tokens == SplitWhitespace(x_in[i])
    IN /\ \A k \in 1..Len(tokens) : InWordIndex(result.tokenized.tk, tokens[k])
       /\ Len(tokens) <= length_in

Pads(n) == [k \in 1..n |-> PAD]

\* C5 as stated: decoding the one-hot distributions of the padded id
\* sequence of such a sentence gives back the token sequence of the sentence.
C5_RoundTripGivesTokens ==
    pc = "decoded"
        => \A i \in 1..Len(x_in) :
              InVocabulary(i)
                  => /\ result.decoded[i].ok
                     /\ SplitWhitespace(result.decoded[i].val) = SplitWhitespace(x_in[i])

\* C5 as amended: it gives back the token sequence of the sentence followed
\* by one '<PAD>' for each of the max_length - n padded positions.
C5_RoundTripGivesTokensThenPads ==
    pc = "decoded"
        => \A i \in 1..Len(x_in) :
              InVocabulary(i)
                  => /\ result.decoded[i].ok
                     /\ SplitWhitespace(result.decoded[i].val)
                            = SplitWhitespace(x_in[i])
                                 \o Pads(length_in - Len(SplitWhitespace(x_in[i])))

C5_Witness ==
    /\ pc = "decoded"
    /\ \E i \in 1..Len(x_in) :
          /\ InVocabulary(i)
          /\ Len(SplitWhitespace(x_in[i])) = 2
          /\ SplitWhitespace(x_in[i])[1] # SplitWhitespace(x_in[i])[2]
          /\ length_in > 2

(***************************************************************************)
(* Properties of logits_to_text, under SpecDecode.                         *)
(***************************************************************************)
\* the columns (ids) at which a row is largest
IsArgMax(row, id) == \A c \in 1..Len(row) : row[c] <= row[id + 1]

\* C7: the text is seq_len tokens joined by single spaces, the token of
\* position p being the word whose id is an arg-max column of row p, or
\* '<PAD>' when that id is 0.
C7_TextIsArgMaxWordsJoined ==
    pc = "decoded"
        => /\ result.text.ok
           /\ \E ids \in [1..Len(result.logits) -> 0..(vocab_size(result.tk) - 1)] :
                 /\ \A p \in 1..Len(ids) : IsArgMax(result.logits[p], ids[p])
                 /\ \A p \in 1..Len(ids) :
                       ids[p] # 0 => \E e \in word_index(result.tk) : e[2] = ids[p]
                 /\ result.text.val =
                       Join([p \in 1..Len(ids) |->
                                IF ids[p] = 0 THEN PAD
                                ELSE (CHOOSE e \in word_index(result.tk) :
                                          e[2] = ids[p])[1]],
                            <<" ">>)

C7_Witness ==
    /\ pc = "decoded"
    /\ Len(result.tk) = 2
    /\ Len(result.logits) = 2
    /\ ArgMax(result.logits[1]) = 2
    /\ ArgMax(result.logits[2]) = 0

(***************************************************************************)
(* Properties of the tokenizer, under SpecVocab.                           *)
(***************************************************************************)
\* the positions of the words of the looked-up sentence that the vocabulary
\* holds
KeptPositions ==
    LET ws == text_to_word_sequence(result.sentence)
    IN {k \in 1..Len(ws) : \E e \in word_index(result.tk) : e[1] = ws[k]}

\* C11: looking a sentence up in an already built vocabulary returns, without
\* raising, the ids of the words of the sentence that the vocabulary holds, in
\* their order, nothing for the other words, and leaves the vocabulary as it
\* was.
C11_UnseenTokensAreDropped ==
    pc = "vocab_done"
        => LET ws == text_to_word_sequence(result.sentence)
               kept == KeptPositions
           IN /\ result.ids.ok
              /\ Len(result.ids.val) = Cardinality(kept)
              /\ \A p \in kept :
                    <<ws[p], result.ids.val[Cardinality({q \in kept : q < p}) + 1]>>
                        \in word_index(result.tk)
              /\ result.tk_after = result.tk

C11_Witness ==
    /\ pc = "vocab_done"
    /\ Len(text_to_word_sequence(result.sentence)) = 3
    /\ KeptPositions = {1, 3}
    /\ result.ids.ok /\ Len(result.ids.val) = 2

\* the first position of a word in the corpus
FirstPosition(w) ==
    LET ws == AllWords(x_in)
    IN CHOOSE k \in 1..Len(ws) : ws[k] = w /\ \A j \in 1..(k - 1) : ws[j] # w

\* C16: the ids are 1..n without gaps; a word with a smaller id is more
\* frequent in the corpus than a word with a larger id, or as frequent and
\* first seen earlier; building the vocabulary again from the same corpus
\* gives the same mapping.
C16_IdsByFrequencyThenFirstAppearance ==
    pc \in {"vocab_lookup", "vocab_done"}
        => LET wi == word_index(result.tk)
               ws == AllWords(x_in)
           IN /\ {e[2] : e \in wi} = 1..Cardinality({ws[k] : k \in 1..Len(ws)})
              /\ \A e1, e2 \in wi :
                    e1[2] < e2[2]
                        => \/ Count(e1[1], ws) > Count(e2[1], ws)
                           \/ /\ Count(e1[1], ws) = Count(e2[1], ws)
                              /\ FirstPosition(e1[1]) < FirstPosition(e2[1])
              /\ word_index(result.again) = wi

C16_Witness ==
    /\ pc = "vocab_lookup"
    /\ Len(result.tk) = 2
    /\ FirstPosition(result.tk[1]) > FirstPosition(result.tk[2])
    /\ Len(x_in) = 2

(***************************************************************************)
(* Properties of the builders, under SpecBuild.                            *)
(***************************************************************************)
\* C12: a model of any of the three builders, built for sequences of length L
\* and target vocabulary size V, maps a batch of B sequences of length L to
\* an output of shape [B, L, V]; L = 21 and V = 345 give [B, 21, 345].
C12_OutputShapeIsBatchLengthVocab ==
    pc = "predicted"
        => /\ result.batch_shape[2] = result.input_shape[2]
           /\ result.output_shape.ok
           /\ result.output_shape.val = <<result.batch_shape[1],
                                          result.input_shape[2],
                                          result.french_vocab_size>>
           /\ (/\ result.input_shape[2] = PrintedMaxFrenchSequenceLength
               /\ result.french_vocab_size = PrintedFrenchVocabSize)
                 => result.output_shape.val = <<result.batch_shape[1], 21, 345>>

C12_Witness ==
    /\ pc = "predicted"
    /\ result.builder = "bidirectional_embed_model"
    /\ result.input_shape[2] = 21 /\ result.french_vocab_size = 345
    /\ result.output_sequence_length # 21
    /\ result.batch_shape[1] = 2 /\ result.input_shape[1] = 1
    /\ result.output_shape.ok

(***************************************************************************)
(* Properties of the notebook run, under Spec.                             *)
(***************************************************************************)
Loaded == pc # "load_data"
Preprocessed == pc \notin {"load_data", "preprocess"}
Misaligned == Len(english_sentences) # Len(french_sentences)

\* C8: when the two files have different line counts, the run stops at the
\* load with an error and nothing later has run: no tokenizer is fitted, no
\* table is padded, no model is fitted, no file is saved.
C8_MisalignedCorpusFailsAtLoad ==
    (Loaded /\ Misaligned)
        => /\ pc = "error"
           /\ english_tokenizer = <<>> /\ french_tokenizer = <<>>
           /\ preproc_english_sentences = NoTable
           /\ preproc_french_sentences = NoTable
           /\ tmp_x = NoTable
           /\ models = NoModels
           /\ saved = NoFiles

\* the line breaks of a file
LineBreaks(data) == Cardinality({k \in 1..Len(data) : data[k] = NL})

\* the ids of the words of a sentence, each looked up in word_index, followed
\* by zeros up to a width
IsSentenceRow(row, sentence, tk, width) ==
    LET ws == text_to_word_sequence(sentence)
    IN /\ Len(row) = width
       /\ Len(ws) <= width
       /\ \A j \in 1..Len(ws) : <<ws[j], row[j]>> \in word_index(tk)
       /\ \A j \in (Len(ws) + 1)..width : row[j] = 0

\* C9: for files of N lines each, the sentences are the N lines of each file
\* in order, both padded tables have N rows, and row i of each holds the ids
\* of the words of sentence i of its corpus, then zeros.
C9_RowsAlignedWithSentences ==
    (Preprocessed /\ ~Misaligned)
        => LET N == LineBreaks(english_data) + 1
           IN /\ Len(english_sentences) = N
              /\ Len(french_sentences) = N
              /\ Len(preproc_english_sentences) = N
              /\ Len(preproc_french_sentences) = N
              /\ Join(english_sentences, <<NL>>) = english_data
              /\ Join(french_sentences, <<NL>>) = french_data
              /\ \A i \in 1..N :
                    /\ IsSentenceRow(preproc_english_sentences[i],
                                     english_sentences[i],
                                     english_tokenizer,
                                     max_english_sequence_length)
                    /\ IsSentenceRow([j \in 1..Len(preproc_french_sentences[i]) |->
                                         preproc_french_sentences[i][j][1]],
                                     french_sentences[i],
                                     french_tokenizer,
                                     max_french_sequence_length)

C9_Witness ==
    /\ Preprocessed /\ ~Misaligned
    /\ Len(english_sentences) = 2
    /\ english_sentences[1] = <<>> /\ english_sentences[2] # <<>>
    /\ french_sentences[1] # <<>> /\ french_sentences[2] = <<>>

\* the states in which tmp_x has been fed to a fit that returned, and row i
\* of tmp_x as a row of ids
FedThreeD == pc \in {"simple_predict", "bd_model", "bd_predict", "embed_model"}
FedTwoD == pc \in {"embed_predict", "save", "done"}
Fed == FedThreeD \/ FedTwoD
TmpRow(i) ==
    IF FedThreeD THEN [j \in 1..Len(tmp_x[i]) |-> tmp_x[i][j][1]] ELSE tmp_x[i]

SourceIds(i) == text_to_sequence(english_tokenizer, english_sentences[i])
TargetIds(i) == text_to_sequence(french_tokenizer, french_sentences[i])
LongestTarget == MaxLen([i \in 1..Len(french_sentences) |-> TargetIds(i)])
LongestSource == MaxLen([i \in 1..Len(english_sentences) |-> SourceIds(i)])

WidthsAgree ==
    LET W == LongestTarget
    IN /\ Len(tmp_x) = Len(preproc_french_sentences)
       /\ \A i \in 1..Len(tmp_x) :
             /\ Len(TmpRow(i)) = W
             /\ Len(preproc_french_sentences[i]) = W

ModelFile == "english_to_french_model.keras"
SourceVocabularyFile == "english_tokenizer.json"
TargetVocabularyFile == "french_tokenizer.json"
LengthFile == "sequence_length.json"

\* C13: the save cell writes exactly four files: the model, the source
\* vocabulary, the target vocabulary and the target sequence length. The
\* stored length is the width of the input the saved model was built for and
\* fitted on; the stored vocabularies are those of the run, and their sizes
\* (plus 1) are the input and output dimensions of the saved model. Nothing
\* is written before the save cell.
C13_SavedArtifactsAreConsistent ==
    /\ pc # "done" => saved = NoFiles
    /\ pc = "done"
          => /\ DOMAIN saved = {ModelFile, SourceVocabularyFile,
                                TargetVocabularyFile, LengthFile}
             /\ saved[ModelFile] = models["embed_rnn_model"]
             /\ saved[ModelFile].input = <<saved[LengthFile]>>
             /\ \A i \in 1..Len(tmp_x) : Len(tmp_x[i]) = saved[LengthFile]
             /\ saved[SourceVocabularyFile] = word_index(english_tokenizer)
             /\ saved[TargetVocabularyFile] = word_index(french_tokenizer)
             /\ saved[ModelFile].input_dim = Cardinality(saved[SourceVocabularyFile]) + 1
             /\ saved[ModelFile].layers[Len(saved[ModelFile].layers)]
                   = <<saved[LengthFile], Cardinality(saved[TargetVocabularyFile]) + 1>>

C13_Witness ==
    /\ pc = "done"
    /\ saved # NoFiles
    /\ max_english_sequence_length # max_french_sequence_length
    /\ Len(english_tokenizer) # Len(french_tokenizer)
    /\ saved["sequence_length.json"] = 2

\* C15: from the end of the preprocess cell on, no cell changes either
\* tokenizer's word_index, the loaded sentences or the contents of the files.
C15_VocabulariesAndCorporaAreFrozen ==
    [][Preprocessed
          => /\ word_index(english_tokenizer') = word_index(english_tokenizer)
             /\ word_index(french_tokenizer') = word_index(french_tokenizer)
             /\ english_sentences' = english_sentences
             /\ french_sentences' = french_sentences
             /\ english_data' = english_data
             /\ french_data' = french_data]_vars

C15_Witness ==
    /\ pc = "done"
    /\ Len(english_tokenizer) = 2 /\ Len(french_tokenizer) = 2
    /\ Cardinality(DOMAIN models) = 3
    /\ saved # NoFiles

\* the prediction cells and the model each one runs
ModelCells == {"simple_predict", "bd_predict", "embed_predict"}
ModelAt(at) ==
    CASE at = "simple_predict" -> "simple_rnn_model"
      [] at = "bd_predict" -> "bd_rnn_model"
      [] at = "embed_predict" -> "embed_rnn_model"

\* C17: once preprocessed, every entry of the padded source table (and of
\* tmp_x once fed) is in 0..english_vocab_size-1, every target label is in
\* 0..french_vocab_size-1, logits_to_text has a word or '<PAD>' for every id
\* in 0..french_vocab_size-1, and at a prediction cell no table the model can
\* return makes logits_to_text raise.
C17_IdsStayInVocabularyRange ==
    Preprocessed
        => /\ \A i \in 1..Len(preproc_english_sentences) :
                 \A j \in 1..Len(preproc_english_sentences[i]) :
                    preproc_english_sentences[i][j] \in 0..(english_vocab_size - 1)
           /\ \A i \in 1..Len(preproc_french_sentences) :
                 \A j \in 1..Len(preproc_french_sentences[i]) :
                    preproc_french_sentences[i][j][1] \in 0..(french_vocab_size - 1)
           /\ Fed => \A i \in 1..Len(tmp_x) : \A j \in 1..Len(TmpRow(i)) :
                        TmpRow(i)[j] \in 0..(english_vocab_size - 1)
           /\ \A id \in 0..(french_vocab_size - 1) :
                 \E e \in index_to_words(french_tokenizer) : e[1] = id
           /\ pc \in ModelCells
                 => \A logits \in PredictedTables(OutputShape(models[ModelAt(pc)])[1],
                                                  OutputShape(models[ModelAt(pc)])[2]) :
                       logits_to_text(logits, french_tokenizer).ok

C17_Witness ==
    /\ pc = "bd_model"
    /\ french_vocab_size = 3 /\ english_vocab_size = 3
    /\ \E i \in 1..Len(preproc_french_sentences) :
          \E j \in 1..Len(preproc_french_sentences[i]) :
             preproc_french_sentences[i][j][1] = french_vocab_size - 1
    /\ \E i \in 1..Len(tmp_x) : \E j \in 1..Len(TmpRow(i)) :
          TmpRow(i)[j] = english_vocab_size - 1
    /\ prediction = french_tokenizer[2] \o <<" ">> \o PAD

====
